---- MODULE Spec2Model ----
(***************************************************************************)
(* A model of xnb_extract.py: the XNB container parser (parse,             *)
(* parse_object), the primitive decoders (read_leb128, struct reads) and   *)
(* the typed content decoders of ObjectReader.                             *)
(*                                                                         *)
(* The input stream is forward-only, so its content is drawn lazily: each  *)
(* read draws the bytes it consumes from a small set, and may find the     *)
(* stream ended.                                                           *)
(***************************************************************************)
EXTENDS Integers, Sequences, FiniteSets, TLC

VARIABLES
    inputs,         \* the sets this run's reader names, texture formats and
                    \* texture shapes are drawn from: [names, formats, shapes]
    dct,            \* read_dictionary on a stream of its own
    dtm,            \* read_datetime on a stream of its own
    px,             \* _col_as_rgba applied to a texel: [pc, typ, bytes, out]
    snd,            \* read_sound_effect on a stream of its own
    mdl,            \* read_model on a stream of its own
    leb,            \* read_leb128 applied to a stream: [pc, V, stream, result, used, ok]
    pc,             \* parse: the statement the run is at
    pos,            \* fp: number of bytes consumed so far
    eof,            \* fp: a read has found the stream ended
    dirMade,        \* os.makedirs(outdir) has been called
    flags,          \* parse: the header flags byte (-1 before it is read)
    readers,        \* parse: the reader table, a sequence of [name, version]
    count,          \* parse: the declared reader count
    shared_resource_count,
    idx,            \* parse: loop index i (reader loop, shared loop); -1 = primary
    tree,           \* parse: [hasPrimary, primary, shared]
    files,          \* the artifact paths written so far, in order
    indexJson,      \* index.json: <<>> while unwritten, else <<tree>>
    outcome,        \* how parse ended: "running", "return 0", "return 1",
                    \* "SystemExit(1)" or the name of the exception raised
    cause,          \* which condition ended the run
    tex,            \* read_texture2d: [fmt, width, height, mip_count, i, n]
    refs,           \* the type references parse_object has read, in order:
                    \* [type_id, at (pos before), used (bytes of the reference)]
    seen            \* the outcomes of the caller's earlier runs

fsVars == <<dirMade, files, indexJson>>

tblVars == <<readers, count, shared_resource_count>>

mainVars == <<pc, pos, eof, dirMade, flags, readers, count,
              shared_resource_count, idx, tree, files, indexJson, outcome, cause, tex, refs>>

vars == <<inputs, dct, dtm, leb, px, snd, mdl, mainVars, seen>>

(***************************************************************************)
(* Bit arithmetic on non-negative integers (Python's &, |, << and >>).     *)
(***************************************************************************)
RECURSIVE BitAnd(_, _)
BitAnd(a, b) ==
    IF a = 0 \/ b = 0 THEN 0
    ELSE (IF a % 2 = 1 /\ b % 2 = 1 THEN 1 ELSE 0) + 2 * BitAnd(a \div 2, b \div 2)

RECURSIVE BitOr(_, _)
BitOr(a, b) ==
    IF a = 0 THEN b
    ELSE IF b = 0 THEN a
    ELSE (IF a % 2 = 1 \/ b % 2 = 1 THEN 1 ELSE 0) + 2 * BitOr(a \div 2, b \div 2)

Shl(a, n) == a * 2^n

Shr(a, n) == a \div 2^n

(***************************************************************************)
(* read_leb128(fp): result = 0, i = 0; each byte ORs (byte & 0x7f) <<      *)
(* (7 * i) into result; the loop ends on a byte with bit 7 clear.  The     *)
(* source never changes i, so leb_loop passes it on unchanged.  s is the   *)
(* stream from the current position; k is the next byte to read.           *)
(* fp.read(1)[0] at the end of the stream raises IndexError: ok = FALSE.   *)
(***************************************************************************)
RECURSIVE leb_loop(_, _, _, _)
leb_loop(s, k, result, i) ==
    IF k > Len(s)
    THEN [ok |-> FALSE, value |-> result, used |-> k - 1]
    ELSE LET byte == s[k]
             r2   == BitOr(result, Shl(BitAnd(byte, \H7F), 7 * i))
         IN  IF BitAnd(byte, \H80) = 0
             THEN [ok |-> TRUE, value |-> r2, used |-> k]
             ELSE leb_loop(s, k + 1, r2, i)

read_leb128(s) == leb_loop(s, 1, 0, 0)

(***************************************************************************)
(* The canonical minimal-length unsigned LEB128 encoding of V: 7 payload   *)
(* bits per byte, least-significant group first, bit 7 = continuation.     *)
(***************************************************************************)
RECURSIVE encode_leb128(_)
encode_leb128(V) ==
    IF V < 128 THEN <<V>>
    ELSE <<(V % 128) + 128>> \o encode_leb128(V \div 128)

\* The _col_as_rgba harness at rest.
PxIdle == [pc |-> "idle", typ |-> "", bytes |-> <<>>, out |-> <<>>]

\* The read_dictionary harness at rest.
DctIdle == [pc |-> "idle", key_reader |-> "", value_reader |-> "", count |-> 0, i |-> 0,
            d |-> {}, result |-> <<>>]

\* The read_datetime harness at rest.
DtmIdle == [pc |-> "idle", word |-> <<>>, result |-> <<>>]

\* The read_leb128 harness at rest.
LebIdle == [pc |-> "idle", V |-> 0, stream |-> <<>>, result |-> 0, used |-> 0, ok |-> TRUE]

(***************************************************************************)
(* _col_as_rgba for the 16-bit packed formats.                             *)
(***************************************************************************)
\* read_uint16: struct.unpack('H', fp.read(2))[0], native (little-endian)
\* byte order.
read_uint16(b) == b[1] + 256 * b[2]

\* Lines 357-363.
unpack_bgra5551(color) ==
    LET r == Shr(BitAnd(color, \H7C00), 7)
        g == Shr(BitAnd(color, \H03E0), 2)
        b == Shl(BitAnd(color, \H001F), 3)
        a == IF BitAnd(color, \H8000) = \H8000 THEN \HFF ELSE 0
    IN  <<r, g, b, a>>

\* unpack_bgra4444 with each nibble replicated into the low nibble.
unpack_bgra4444_replicated(color) ==
    LET r == Shr(BitAnd(color, \H0F00), 4) + Shr(BitAnd(color, \H0F00), 8)
        g == BitAnd(color, \H00F0) + Shr(BitAnd(color, \H00F0), 4)
        b == Shl(BitAnd(color, \H000F), 4) + BitAnd(color, \H000F)
        a == Shr(BitAnd(color, \HF000), 8) + Shr(BitAnd(color, \HF000), 12)
    IN  <<r, g, b, a>>

\* Lines 364-370.
unpack_bgra4444(color) ==
    LET r == Shr(BitAnd(color, \H0F00), 4)
        g == BitAnd(color, \H00F0)
        b == Shl(BitAnd(color, \H000F), 4)
        a == Shr(BitAnd(color, \HF000), 8)
    IN  <<r, g, b, a>>

\* Lines 357 and 364: the branch of _col_as_rgba taken for typ.
col_as_rgba16(typ, bytes) ==
    IF typ = "Bgra5551"
    THEN unpack_bgra5551(read_uint16(bytes))
    ELSE unpack_bgra4444(read_uint16(bytes))

(***************************************************************************)
(* read_sound_effect (lines 742-766) on a stream of its own, with          *)
(* save_base = "primary".  The bytes of the stream are a function of a     *)
(* seed drawn at the read; the PCM payload, which may be as long as a      *)
(* uint32 allows, is kept as [len, seed]: its length and the seed of its   *)
(* bytes.  The data size and the payload length are unsigned integers kept *)
(* as [hi, lo], the value hi * 65536 + lo with lo < 65536, so that every   *)
(* uint32 and the sums formed from it are exact.                           *)
(* The stream position is not advanced here: each read records the number  *)
(* of bytes it obtained.                                                   *)
(***************************************************************************)
MaxPcm == 2

U(hi, lo) == [hi |-> hi, lo |-> lo]

\* x + k for an integer k >= 0.
UAdd(x, k) == [hi |-> x.hi + (x.lo + k) \div 65536, lo |-> (x.lo + k) % 65536]

\* x - 1 for x > 0.
UPred(x) == IF x.lo > 0 THEN U(x.hi, x.lo - 1) ELSE U(x.hi - 1, 65535)

\* fp.read(n) for a length n kept as [hi, lo]: the number of bytes obtained.
GotU(n) ==
    IF eof THEN {U(0, 0)}
    ELSE {U(0, 0), n} \cup (IF n = U(0, 0) THEN {} ELSE {UPred(n)})

ChunkSeeds == {1, 200}

PcmSeeds == {0, 77}

\* data_size fields drawn: short payloads and the largest uint32 values.
DataSizes ==
    {U(0, n) : n \in 0..MaxPcm} \cup {U(65535, 65499), U(65535, 65500), U(65535, 65535)}

\* The k-th byte of the format chunk of the stream drawn with this seed.
ChunkByte(seed, k) == (seed + 7 * k) % 256

SndIdle ==
    [pc |-> "idle", fmt_got |-> -1, chunk_seed |-> 0, waveformatex |-> <<>>,
     data_size |-> U(0, 0), data_got |-> U(-1, 0), pcm_seed |-> 0, wav |-> <<>>, result |-> <<>>]

\* The read_model harness at rest.
MdlIdle ==
    [pc |-> "idle", bone_count |-> 0, reference_reader |-> "", i |-> 0, j |-> 0,
     bones |-> 0, parents |-> {}, children |-> {}, ref_reads |-> {},
     mesh_count |-> 0, part_count |-> 0, mesh |-> <<>>, parts |-> <<>>,
     meshes |-> <<>>, result |-> <<>>]

(***************************************************************************)
(* Program tables.                                                         *)
(***************************************************************************)
SURFACE_FORMATS ==
    <<"Color", "Bgr565", "Bgra5551", "Bgra4444", "Dxt1", "Dxt3", "Dxt5",
      "NormalizedByte2", "NormalizedByte4", "Rgba1010102", "Rg32", "Rgba64",
      "Alpha8", "Single", "Vector2", "Vector4", "HalfSingle", "HalfVector2",
      "HalfVector4", "HdrBlendable">>

\* The qualified names ObjectReader.parsers binds that the reader tables of
\* this model draw from, and the method each is bound to.  TextureReader is
\* bound to a decoder that returns None.
ByteReaderName == "Microsoft.Xna.Framework.Content.ByteReader"

TextureReaderName == "Microsoft.Xna.Framework.Content.TextureReader"

Texture2DReaderName == "Microsoft.Xna.Framework.Content.Texture2DReader"

StringReaderName == "Microsoft.Xna.Framework.Content.StringReader"

\* A well-formed reader name that ObjectReader.parsers does not bind.
UnboundReaderName == "Game.Content.LevelReader"

parsers ==
    [n \in {ByteReaderName, StringReaderName, TextureReaderName, Texture2DReaderName} |->
        CASE n = ByteReaderName      -> "read_byte"
          [] n = StringReaderName    -> "read_string"
          [] n = TextureReaderName   -> "lambda: None"
          [] n = Texture2DReaderName -> "read_texture2d"]

\* parsers_get with an unbound name decoded as a byte.
parsers_get_byte_default(name) ==
    IF name \in DOMAIN parsers THEN parsers[name] ELSE "read_byte"

\* self.parsers.get(self.type) or (lambda: None)
parsers_get(name) ==
    IF name \in DOMAIN parsers THEN parsers[name] ELSE "lambda: None"

(***************************************************************************)
(* Decoded values (what json.dump receives).                               *)
(***************************************************************************)
None == [t |-> "None"]

IntValue(v) == [t |-> "int", v |-> v]

StrValue(v) == [t |-> "str", v |-> v]

TextureRecord(fmt, w, h, m) ==
    [t |-> "dict", original_format |-> fmt, width |-> w, height |-> h, mip_count |-> m]

(***************************************************************************)
(* Bounds of the inputs drawn.                                             *)
(***************************************************************************)
MaxReaders == 2     \* reader tables of up to MaxReaders entries

MaxShared == 1      \* up to MaxShared shared resources

\* <<width, height, mip_count>> of the textures drawn: one texel and one mip;
\* two texels and two mips; a mip of no texel.
TextureShapes == {<<1, 1, 1>>, <<2, 1, 2>>, <<0, 1, 1>>}

ReaderNames == {ByteReaderName, Texture2DReaderName, UnboundReaderName}

\* The strings drawn as string objects: the text, and the text without its
\* last character.
StringSamples == {[text |-> "", cut |-> ""], [text |-> "ab", cut |-> "a"]}

FlagBytes == {0, \H7F, \H80, \HFF}

ByteSamples == {0, 255}

\* int32 format fields: below -20 and above 19 are outside the list; Python
\* indexes -20..-1 from the end of the list.
FormatSamples == {-21, 0, 4, 16, 20}

\* The sets the inputs of parse are drawn from.
ParseInputs == [names |-> ReaderNames, formats |-> FormatSamples, shapes |-> TextureShapes]

\* The same with string objects, a format field that Python indexes from
\* the end of the list, and a texture of no mip level.
ContentInputs ==
    [names   |-> ReaderNames \cup {StringReaderName},
     formats |-> FormatSamples \cup {-1},
     shapes  |-> TextureShapes \cup {<<1, 1, 0>>}]

\* fp.read(n): the number of bytes obtained.  Fewer than n means the stream
\* ended inside this read; once ended, every read obtains nothing.
Got(n) == IF eof THEN {0} ELSE {g \in {0, n - 1, n} : g >= 0}

\* The streams a read_leb128 call may meet: canonical encodings, the two-byte
\* encoding of 129, and streams that end before a terminating byte.
LebStreams(maxv) ==
    IF eof THEN {<<>>}
    ELSE {encode_leb128(v) : v \in 0..maxv} \cup {<<\H81, 1>>, <<>>, <<\H81>>}

(***************************************************************************)
(* parse(fp, outdir)                                                       *)
(***************************************************************************)
EmptyTree == [hasPrimary |-> FALSE, primary |-> None, shared |-> <<>>]

TexIdle ==
    [format_field |-> 0, fmt |-> "", width |-> 0, height |-> 0, mip_count |-> 0,
     i |-> 0, n |-> 0]

MainIdle ==
    /\ inputs = ParseInputs
    /\ pc = "idle" /\ pos = 0 /\ eof = FALSE
    /\ dirMade = FALSE
    /\ flags = -1 /\ readers = <<>> /\ count = 0 /\ shared_resource_count = 0
    /\ idx = 0 /\ tree = EmptyTree /\ files = <<>> /\ indexJson = <<>>
    /\ outcome = "running" /\ cause = "none" /\ tex = TexIdle /\ refs = <<>>

InitMain ==
    /\ pc = "prompt" /\ pos = 0 /\ eof = FALSE
    /\ dirMade = FALSE
    /\ flags = -1 /\ readers = <<>> /\ count = 0 /\ shared_resource_count = 0
    /\ idx = 0 /\ tree = EmptyTree /\ files = <<>> /\ indexJson = <<>>
    /\ outcome = "running" /\ cause = "none" /\ tex = TexIdle /\ refs = <<>>

Init ==
    /\ inputs = ParseInputs
    /\ InitMain
    /\ leb = LebIdle
    /\ px = PxIdle
    /\ snd = SndIdle
    /\ mdl = MdlIdle
    /\ seen = {}
    /\ dct = DctIdle /\ dtm = DtmIdle

\* The run ends: parse returns, exits or raises.
End(how, why) ==
    /\ pc' = "done"
    /\ outcome' = how
    /\ cause' = why

Goto(label) ==
    /\ pc' = label
    /\ UNCHANGED <<outcome, cause>>

\* Lines 827-830: the prompt when the output directory exists already.
Prompt ==
    /\ pc = "prompt"
    /\ \E exists \in BOOLEAN, res \in {"y", "n"} :
        IF exists /\ res # "y"
        THEN End("SystemExit(1)", "declined")
        ELSE Goto("magic")
    /\ UNCHANGED <<inputs, dct, dtm, leb, px, snd, mdl, pos, eof, fsVars, flags, tblVars, idx, tree, tex, refs, seen>>

\* Lines 832-837: the magic, then os.makedirs and tree = {}.
is_magic(m) == m = "XNB"

\* ParseMagic with os.makedirs called before the magic is checked.
ParseMagic_makedirs_first ==
    /\ pc = "magic"
    /\ \E g \in Got(3), m \in {"XNB", "XNA"} :
        /\ pos' = pos + g
        /\ eof' = (eof \/ g < 3)
        /\ dirMade' = TRUE
        /\ IF g < 3 \/ ~is_magic(m)
           THEN End("return 1", "bad_magic")
           ELSE Goto("platform")
    /\ UNCHANGED <<inputs, dct, dtm, leb, px, snd, mdl, files, indexJson, flags, tblVars, idx, tree, tex, refs, seen>>

ParseMagic ==
    /\ pc = "magic"
    /\ \E g \in Got(3), m \in {"XNB", "XNA"} :
        /\ pos' = pos + g
        /\ eof' = (eof \/ g < 3)
        /\ IF g < 3 \/ ~is_magic(m)
           THEN End("return 1", "bad_magic") /\ UNCHANGED dirMade
           ELSE Goto("platform") /\ dirMade' = TRUE
    /\ UNCHANGED <<inputs, dct, dtm, leb, px, snd, mdl, files, indexJson, flags, tblVars, idx, tree, tex, refs, seen>>

\* Lines 839-844: the platform byte; an unknown or missing one only warns.
ParsePlatform ==
    /\ pc = "platform"
    /\ \E g \in Got(1) :
        /\ pos' = pos + g
        /\ eof' = (eof \/ g < 1)
    /\ Goto("version")
    /\ UNCHANGED <<inputs, dct, dtm, leb, px, snd, mdl, fsVars, flags, tblVars, idx, tree, tex, refs, seen>>

\* Lines 846-851: fv = fp.read(1)[0]; an unknown version only warns.
ParseVersion ==
    /\ pc = "version"
    /\ \E g \in Got(1) :
        /\ pos' = pos + g
        /\ eof' = (eof \/ g < 1)
        /\ IF g < 1 THEN End("IndexError", "truncated") ELSE Goto("flags")
    /\ UNCHANGED <<inputs, dct, dtm, leb, px, snd, mdl, fsVars, flags, tblVars, idx, tree, tex, refs, seen>>

\* is_compressed testing bit 6.
is_compressed_bit6(f) == BitAnd(f, \H40) = \H40

\* Lines 853-860: flags = fp.read(1)[0]; bit 7 set returns 1.
is_compressed(f) == BitAnd(f, \H80) = \H80

ParseFlags ==
    /\ pc = "flags"
    /\ \E g \in Got(1), f \in FlagBytes :
        /\ pos' = pos + g
        /\ eof' = (eof \/ g < 1)
        /\ IF g < 1
           THEN End("IndexError", "truncated") /\ UNCHANGED flags
           ELSE /\ flags' = f
                /\ IF is_compressed(f)
                   THEN End("return 1", "compressed")
                   ELSE Goto("size")
    /\ UNCHANGED <<inputs, dct, dtm, leb, px, snd, mdl, fsVars, tblVars, idx, tree, tex, refs, seen>>

\* Lines 862-867: the size field, recorded and not validated.  The second
\* is_compressed branch cannot be taken.
ParseSize ==
    /\ pc = "size"
    /\ \E g \in Got(4) :
        /\ pos' = pos + g
        /\ eof' = (eof \/ g < 4)
        /\ IF g < 4 THEN End("struct.error", "truncated") ELSE Goto("count")
    /\ UNCHANGED <<inputs, dct, dtm, leb, px, snd, mdl, fsVars, flags, tblVars, idx, tree, tex, refs, seen>>

\* Line 869: count = read_leb128(fp).
ParseCount ==
    /\ pc = "count"
    /\ \E s \in LebStreams(MaxReaders) :
        LET r == read_leb128(s)
        IN  /\ pos' = pos + r.used
            /\ eof' = (eof \/ ~r.ok)
            /\ IF ~r.ok
               THEN End("IndexError", "truncated") /\ UNCHANGED count
               ELSE Goto("readers") /\ count' = r.value
    /\ idx' = 0
    /\ UNCHANGED <<inputs, dct, dtm, leb, px, snd, mdl, fsVars, flags, readers, shared_resource_count, tree, tex, refs, seen>>

\* Lines 873-886: one pass of the reader loop: read_qualified_name, then the
\* int32 version.  A name cut short by the end of the stream is returned
\* short, and the version read that follows raises struct.error.
ParseReader ==
    /\ pc = "readers"
    /\ idx < count
    /\ \E name \in inputs.names :
        \E g \in Got(1 + Len(name) + 4) :
            /\ pos' = pos + g
            /\ eof' = (eof \/ g < 1 + Len(name) + 4)
            /\ IF g < 1
               THEN End("IndexError", "truncated") /\ UNCHANGED <<readers, idx>>
               ELSE IF g < 1 + Len(name) + 4
               THEN End("struct.error", "truncated") /\ UNCHANGED <<readers, idx>>
               ELSE /\ Goto("readers")
                    /\ readers' = Append(readers, [name |-> name, version |-> 0])
                    /\ idx' = idx + 1
    /\ UNCHANGED <<inputs, dct, dtm, leb, px, snd, mdl, fsVars, flags, count, shared_resource_count, tree, tex, refs, seen>>

\* Line 888: shared_resource_count = read_leb128(fp); the primary asset is next.
ParseSharedCount ==
    /\ pc = "readers"
    /\ idx >= count
    /\ \E s \in LebStreams(MaxShared) :
        LET r == read_leb128(s)
        IN  /\ pos' = pos + r.used
            /\ eof' = (eof \/ ~r.ok)
            /\ IF ~r.ok
               THEN End("IndexError", "truncated") /\ UNCHANGED shared_resource_count
               ELSE Goto("object") /\ shared_resource_count' = r.value
    /\ idx' = -1
    /\ UNCHANGED <<inputs, dct, dtm, leb, px, snd, mdl, fsVars, flags, readers, count, tree, tex, refs, seen>>

(***************************************************************************)
(* parse_object(fp, readers, save_dir) and the decoders it dispatches to.  *)
(***************************************************************************)
\* os.path.join(outdir, 'primary') and os.path.join(outdir, f'resource_{i}')
save_base(i) == IF i = -1 THEN "primary" ELSE "resource_" \o ToString(i)

\* Lines 894-898 and 912-917: parse stores the object parse_object returned
\* and goes on to the next shared resource, or to the JSON dump after the
\* last one.
Commit(obj) ==
    /\ tree' = IF idx = -1
               THEN [tree EXCEPT !.hasPrimary = TRUE, !.primary = obj]
               ELSE [tree EXCEPT !.shared = Append(@, obj)]
    /\ idx' = idx + 1
    /\ Goto(IF idx + 1 < shared_resource_count THEN "object" ELSE "dump")

\* Lines 816-818: the except IndexError handler's return statement indexes
\* readers[type_id] again.
out_of_range_result(rs, type_id) ==
    IF type_id < Len(rs) THEN "return 1" ELSE "IndexError"

\* Lines 809-821, with ObjectReader.parse (135-136) for the decoders that
\* read nothing.
ParseObject ==
    /\ pc = "object"
    /\ \E s \in LebStreams(MaxReaders + 1) :
        LET r       == read_leb128(s)
            type_id == r.value - 1
            reader  == parsers_get(readers[type_id + 1].name)
        IN  /\ pos' = pos + r.used
            /\ eof' = (eof \/ ~r.ok)
            /\ refs' = IF r.ok
                       THEN Append(refs, [type_id |-> type_id, at |-> pos, used |-> r.used])
                       ELSE refs
            /\ IF ~r.ok
               THEN End("IndexError", "truncated") /\ UNCHANGED <<idx, tree>>
               ELSE IF type_id = -1
               THEN Commit(None)
               ELSE IF type_id >= Len(readers)
               THEN End(out_of_range_result(readers, type_id), "reader_oor")
                    /\ UNCHANGED <<idx, tree>>
               ELSE IF reader = "lambda: None"
               THEN Commit(None)
               ELSE Goto(reader) /\ UNCHANGED <<idx, tree>>
    /\ tex' = TexIdle
    /\ UNCHANGED <<inputs, dct, dtm, leb, px, snd, mdl, fsVars, flags, tblVars, seen>>

\* Lines 144-145: read_byte as the object's decoder.
ReadByteObject ==
    /\ pc = "read_byte"
    /\ \E g \in Got(1), b \in ByteSamples :
        /\ pos' = pos + g
        /\ eof' = (eof \/ g < 1)
        /\ IF g < 1
           THEN End("struct.error", "truncated") /\ UNCHANGED <<idx, tree>>
           ELSE Commit(IntValue(b))
    /\ UNCHANGED <<inputs, dct, dtm, leb, px, snd, mdl, fsVars, flags, tblVars, tex, refs, seen>>

\* Lines 180-181: read_string as the object's decoder:
\* self.fp.read(read_leb128(self.fp)).decode('utf-8').  fp.read returns the
\* bytes that are left when the stream ends inside the text, and the
\* shorter text is the string returned.
ReadStringObject ==
    /\ pc = "read_string"
    /\ \E str \in StringSamples :
       \E g \in Got(1 + Len(str.text)) :
           /\ pos' = pos + g
           /\ eof' = (eof \/ g < 1 + Len(str.text))
           /\ IF g < 1
              THEN End("IndexError", "truncated") /\ UNCHANGED <<idx, tree>>
              ELSE Commit(StrValue(IF g = 1 + Len(str.text) THEN str.text
                                   ELSE IF g = 1 THEN "" ELSE str.cut))
    /\ UNCHANGED <<inputs, dct, dtm, leb, px, snd, mdl, fsVars, flags, tblVars, tex, refs, seen>>

\* SURFACE_FORMATS[k] with Python's list indexing.
format_in_list(k) == k >= -Len(SURFACE_FORMATS) /\ k < Len(SURFACE_FORMATS)

surface_format(k) ==
    SURFACE_FORMATS[(IF k < 0 THEN k + Len(SURFACE_FORMATS) ELSE k) + 1]

\* Lines 419-426: the format, width, height and mip count of a Texture2D.
TexHeader ==
    /\ pc = "read_texture2d"
    /\ \E g \in Got(16), k \in inputs.formats, shape \in inputs.shapes :
        IF g < 4
        THEN /\ pos' = pos + g /\ eof' = TRUE
             /\ End("struct.error", "truncated") /\ UNCHANGED tex
        ELSE IF ~format_in_list(k)
        THEN /\ pos' = pos + 4 /\ eof' = eof
             /\ End("IndexError", "format_index") /\ UNCHANGED tex
        ELSE IF g < 16
        THEN /\ pos' = pos + g /\ eof' = TRUE
             /\ End("struct.error", "truncated") /\ UNCHANGED tex
        ELSE /\ pos' = pos + g /\ eof' = eof
             /\ tex' = [format_field |-> k, fmt |-> surface_format(k), width |-> shape[1],
                        height |-> shape[2], mip_count |-> shape[3], i |-> 0, n |-> 0]
             /\ Goto("tex_mip")
    /\ UNCHANGED <<inputs, dct, dtm, leb, px, snd, mdl, fsVars, flags, tblVars, idx, tree, refs, seen>>

\* Lines 429-435: a mip level starts: Image.new, then the size field.
TexMipStart ==
    /\ pc = "tex_mip"
    /\ tex.i < tex.mip_count
    /\ \E g \in Got(4) :
        /\ pos' = pos + g
        /\ eof' = (eof \/ g < 4)
        /\ IF g < 4
           THEN End("struct.error", "truncated") /\ UNCHANGED tex
           ELSE Goto("tex_pixels") /\ tex' = [tex EXCEPT !.n = 0]
    /\ UNCHANGED <<inputs, dct, dtm, leb, px, snd, mdl, fsVars, flags, tblVars, idx, tree, refs, seen>>

\* _col_as_rgba(typ), lines 348-415: how the call ends for each format, and
\* the bytes a completed call consumes.
col_ends(typ) ==
    CASE typ \in {"Dxt1", "Dxt3", "Dxt5"}                       -> "SystemExit(1)"
      [] typ \in {"HalfSingle", "HalfVector2", "HalfVector4"} -> "TypeError"
      [] OTHER                                                -> "returns"

col_bytes(typ) ==
    CASE typ \in {"Alpha8"}                                                -> 1
      [] typ \in {"Bgr565", "Bgra5551", "Bgra4444", "NormalizedByte2"}    -> 2
      [] typ \in {"Color", "NormalizedByte4", "Rgba1010102", "Single",
                  "HdrBlendable"}                                         -> 4
      [] typ \in {"Rg32"}                                                  -> 5
      [] typ \in {"Rgba64", "Vector2"}                                     -> 8
      [] typ \in {"Vector4"}                                               -> 16
      [] OTHER                                                            -> 0

\* Lines 436-439: one texel of the current mip level.
TexPixel ==
    /\ pc = "tex_pixels"
    /\ tex.n < tex.width * tex.height
    /\ IF col_ends(tex.fmt) # "returns"
       THEN /\ End(col_ends(tex.fmt),
                   IF col_ends(tex.fmt) = "SystemExit(1)" THEN "pixel_format" ELSE "half_float")
            /\ UNCHANGED <<pos, eof, tex>>
       ELSE \E g \in Got(col_bytes(tex.fmt)) :
               /\ pos' = pos + g
               /\ eof' = (eof \/ g < col_bytes(tex.fmt))
               /\ IF g < col_bytes(tex.fmt)
                  THEN End("struct.error", "truncated") /\ UNCHANGED tex
                  ELSE Goto("tex_pixels") /\ tex' = [tex EXCEPT !.n = @ + 1]
    /\ UNCHANGED <<inputs, dct, dtm, leb, px, snd, mdl, fsVars, flags, tblVars, idx, tree, refs, seen>>

\* Lines 441-443: im.putdata and im.save(self.save_base + f'_mip{i}.png').
\* Whether the imaging library writes an image of no pixels or raises is
\* not decided by this program: both are drawn.
TexMipSave ==
    /\ pc = "tex_pixels"
    /\ tex.n >= tex.width * tex.height
    /\ \E saved \in (IF tex.width * tex.height = 0 THEN BOOLEAN ELSE {TRUE}) :
        IF saved
        THEN /\ files' = Append(files, save_base(idx) \o "_mip" \o ToString(tex.i) \o ".png")
             /\ tex' = [tex EXCEPT !.i = @ + 1]
             /\ Goto("tex_mip")
        ELSE /\ End("SystemError", "empty_image")
             /\ UNCHANGED <<files, tex>>
    /\ UNCHANGED <<inputs, dct, dtm, leb, px, snd, mdl, pos, eof, dirMade, indexJson, flags, tblVars,
                   idx, tree, refs, seen>>

\* Lines 446-451: read_texture2d returns the metadata record.
TexReturn ==
    /\ pc = "tex_mip"
    /\ tex.i >= tex.mip_count
    /\ Commit(TextureRecord(tex.fmt, tex.width, tex.height, tex.mip_count))
    /\ UNCHANGED <<inputs, dct, dtm, leb, px, snd, mdl, pos, eof, fsVars, flags, tblVars, tex, refs, seen>>

\* Lines 920-924: index.json is written and parse returns 0.
DumpJson ==
    /\ pc = "dump"
    /\ indexJson' = <<tree>>
    /\ End("return 0", "success")
    /\ UNCHANGED <<inputs, dct, dtm, leb, px, snd, mdl, pos, eof, dirMade, files, flags, tblVars,
                   idx, tree, tex, refs, seen>>

\* Lines 927-944: main discards what parse returns and returns None, so
\* sys.exit(main()) ends the process with status 0 whenever parse returns;
\* SystemExit(1) and an uncaught exception both end it with status 1.
exit_status(how) ==
    IF how \in {"return 0", "return 1"} THEN 0 ELSE 1

Next ==
    \/ Prompt
    \/ ParseMagic
    \/ ParsePlatform
    \/ ParseVersion
    \/ ParseFlags
    \/ ParseSize
    \/ ParseCount
    \/ ParseReader
    \/ ParseSharedCount
    \/ ParseObject
    \/ ReadByteObject
    \/ TexHeader
    \/ TexMipStart
    \/ TexPixel
    \/ TexMipSave
    \/ TexReturn
    \/ DumpJson

Spec == Init /\ [][Next]_vars

(***************************************************************************)
(* SpecContent: parse on the wider inputs: reader tables that may name the *)
(* string reader, and textures drawn from ContentInputs.                   *)
(***************************************************************************)
InitContent ==
    /\ inputs = ContentInputs
    /\ InitMain
    /\ leb = LebIdle
    /\ px = PxIdle
    /\ snd = SndIdle
    /\ mdl = MdlIdle
    /\ seen = {}
    /\ dct = DctIdle /\ dtm = DtmIdle

NextContent ==
    \/ Next
    \/ ReadStringObject

SpecContent == InitContent /\ [][NextContent]_vars

(***************************************************************************)
(* SpecRuns: the caller runs the program again on another input and keeps  *)
(* what each earlier run reported.                                         *)
(***************************************************************************)
MaxEarlierRuns == 1

RunAgain ==
    /\ pc = "done"
    /\ Cardinality(seen) < MaxEarlierRuns
    /\ seen' = seen \cup {[cause |-> cause, outcome |-> outcome]}
    /\ pc' = "prompt" /\ pos' = 0 /\ eof' = FALSE
    /\ dirMade' = FALSE
    /\ flags' = -1 /\ readers' = <<>> /\ count' = 0 /\ shared_resource_count' = 0
    /\ idx' = 0 /\ tree' = EmptyTree /\ files' = <<>> /\ indexJson' = <<>>
    /\ outcome' = "running" /\ cause' = "none" /\ tex' = TexIdle /\ refs' = <<>>
    /\ UNCHANGED <<inputs, dct, dtm, leb, px, snd, mdl>>

NextRuns ==
    \/ Next
    \/ RunAgain

SpecRuns == Init /\ [][NextRuns]_vars

(***************************************************************************)
(* Properties of parse.                                                    *)
(***************************************************************************)
\* The decoded node of the k-th type reference read (1 = the primary asset).
Node(t, k) == IF k = 1 THEN t.primary ELSE t.shared[k - 1]

\* The type reference selected a table entry with no bound decoder.
UnboundRef(ref) ==
    /\ ref.type_id >= 0
    /\ ref.type_id < Len(readers)
    /\ readers[ref.type_id + 1].name \notin DOMAIN parsers

Unbound(k) == UnboundRef(refs[k])

\* C2: a type reference N > 0 with N - 1 >= the table length ends the run in
\* the reader-out-of-range failure result: parse returns the failure code 1
\* and index.json is not written.
C2_OutOfRangeReturnsFailure ==
    cause = "reader_oor" => (outcome = "return 1" /\ indexJson = <<>>)

\* C3: success, bad magic, compressed, reader out of range and unsupported
\* pixel format are told apart by the caller: two runs that end for different
\* ones of these five never report the same result of parse, nor the same
\* process exit status.
C3_OutcomesDistinct ==
    LET five == {"success", "bad_magic", "compressed", "reader_oor", "pixel_format"}
    IN  (pc = "done" /\ cause \in five) =>
            \A r \in seen :
                (r.cause \in five /\ r.cause # cause) =>
                    /\ r.outcome # outcome
                    /\ exit_status(r.outcome) # exit_status(outcome)

\* C4: when the first 3 bytes are not "XNB", parse ends with the failure
\* result 1, having read nothing past the magic, with the output directory
\* not created and no artifact or index.json written.  (A run the user
\* declines at the overwrite prompt ends with SystemExit(1) before any byte
\* is read, and writes nothing either.)
C4_BadMagicNoOutput ==
    /\ cause = "bad_magic" =>
          /\ outcome = "return 1"
          /\ pos <= 3
          /\ ~dirMade /\ files = <<>> /\ indexJson = <<>>
    /\ cause = "declined" =>
          /\ outcome = "SystemExit(1)"
          /\ pos = 0
          /\ ~dirMade /\ files = <<>> /\ indexJson = <<>>

\* C4 witness: three bytes that are not "XNB" were read and the run is over.
C4_Witness == pc = "done" /\ cause = "bad_magic" /\ pos = 3 /\ ~eof

\* C5: once a flags byte with bit 7 set has been read, the run is over with
\* the failure result 1 and the stream stands right after the flags byte:
\* the size field, the reader count, the reader table, the shared-resource
\* count and every object stay unread, and no artifact is written.
C5_CompressedStopsAtFlags ==
    (flags # -1 /\ BitAnd(flags, \H80) # 0) =>
        /\ pc = "done" /\ outcome = "return 1" /\ cause = "compressed"
        /\ pos = 6
        /\ count = 0 /\ readers = <<>> /\ shared_resource_count = 0
        /\ refs = <<>> /\ tree = EmptyTree
        /\ files = <<>> /\ indexJson = <<>>

\* C5 witness: the flags byte 0x80 was read.
C5_Witness == pc = "done" /\ flags = \H80

\* C6: a type reference that selects a table entry with no bound decoder
\* decodes to None, consumes no byte beyond the reference itself, produces
\* no error, and the run goes on to the next shared resource (or to the JSON
\* dump after the last); index.json, once written, holds None at every such
\* node.
C6_UnboundStep ==
    (pc = "object" /\ Len(refs') = Len(refs) + 1 /\ UnboundRef(refs'[Len(refs')])) =>
        /\ outcome' = "running"
        /\ pc' = (IF idx + 1 < shared_resource_count THEN "object" ELSE "dump")
        /\ pos' = pos + refs'[Len(refs')].used
        /\ idx' = idx + 1
        /\ Node(tree', Len(refs')) = None

C6_UnboundJson ==
    indexJson # <<>> =>
        \A k \in 1..Len(refs) : Unbound(k) => Node(indexJson[1], k) = None

C6_UnboundDecodesToNone == [][C6_UnboundStep]_vars /\ []C6_UnboundJson

\* C6 witness: index.json was written by a run whose primary asset had no
\* bound decoder and whose shared resource, decoded after it, is a byte.
C6_Witness ==
    /\ indexJson # <<>>
    /\ Len(refs) = 2
    /\ Unbound(1)
    /\ indexJson[1].primary = None
    /\ indexJson[1].shared[1].t = "int"

\* The texture last decoded had a format field that names Dxt1, Dxt3 or Dxt5
\* or is not one of the 20 known tags 0..19.
BadFormatField ==
    /\ tex.fmt # ""
    /\ tex.format_field \notin 0..19 \/ tex.fmt \in {"Dxt1", "Dxt3", "Dxt5"}

\* C13: decoding a texture whose format field names Dxt1, Dxt3 or Dxt5, or
\* is outside 0..19, always ends in a fatal error, whatever its width,
\* height and mip count: read_texture2d does not reach its return statement,
\* no metadata record of it is stored, and index.json is not written.
C13_BadFormatIsFatal ==
    BadFormatField =>
        /\ ~(pc = "tex_mip" /\ tex.i >= tex.mip_count)
        /\ pc \notin {"object", "dump"}
        /\ outcome # "return 0"
        /\ indexJson = <<>>


\* C14: whenever a read needs more bytes than remain in the stream, decoding
\* fails: parse does not return success and index.json is not written for a
\* stream that ended before a requested read was fully satisfied.
C14_TruncationIsFatal ==
    eof => (outcome # "return 0" /\ indexJson = <<>>)


(***************************************************************************)
(* SpecModel: read_model (lines 684-740) on a stream of its own.           *)
(*                                                                         *)
(* A model may have hundreds of bones, so the two bone lists are kept in   *)
(* summary: bones counts the entries of bone_meta, parents and children    *)
(* are the sets of the parent and child indices in bone_refs, and          *)
(* ref_reads holds, for each kind of bone reference read so far, the       *)
(* number of bytes the read consumed.  The stream position is not          *)
(* advanced here.                                                          *)
(***************************************************************************)
MaxFreeBones == 2   \* the first MaxFreeBones bones draw their parent and children;
                    \* the bones after them have parent 0 and no children

MaxChildren == 1    \* child_count up to MaxChildren

MaxMeshes == 1      \* mesh_count up to MaxMeshes

MaxParts == 1       \* part_count up to MaxParts

BoneCounts == {0, 1, 2, 10, 254, 255, 300}

\* The bone indices drawn: the first, the last, and the first one too large.
RefSamples(n) == {r \in {0, n - 1, n} : r >= 0}

\* The type names read_object reads inline.  An inline Texture2D is a Color
\* texture of one texel and one mip level.
InlineNames == {UnboundReaderName, ByteReaderName, Texture2DReaderName}

\* A mesh part's buffers: [elem_count, format (of the element), stride,
\* vertex_count, is_short, ib_size, effect_size].
PartShapes ==
    {[elem_count |-> 0, format |-> 0, stride |-> 0, vertex_count |-> 0,
      is_short |-> TRUE, ib_size |-> 0, effect_size |-> 0],
     [elem_count |-> 1, format |-> 0, stride |-> 4, vertex_count |-> 1,
      is_short |-> FALSE, ib_size |-> 4, effect_size |-> 2],
     [elem_count |-> 1, format |-> 12, stride |-> 4, vertex_count |-> 1,
      is_short |-> FALSE, ib_size |-> 4, effect_size |-> 2]}

\* choose_reference_reader with the threshold one higher.
choose_reference_reader_le255(bone_count) ==
    IF bone_count <= 255 THEN "read_byte" ELSE "read_uint32"

\* Lines 686-689.
choose_reference_reader(bone_count) ==
    IF bone_count < 255 THEN "read_byte" ELSE "read_uint32"

\* The bytes reference_reader() consumes: read_byte 1, read_uint32 4.
reader_width(r) == IF r = "read_byte" THEN 1 ELSE 4

\* read_object (lines 138-140): the bytes of the inline name, then the
\* decoder bound to it.
object_bytes(name) ==
    1 + Len(name) + (CASE parsers_get(name) = "read_byte"      -> 1
                       [] parsers_get(name) = "read_texture2d" -> 16 + 4 + col_bytes("Color")
                       [] OTHER                                -> 0)

object_value(name) ==
    CASE parsers_get(name) = "read_byte"      -> IntValue(7)
      [] parsers_get(name) = "read_texture2d" -> TextureRecord("Color", 1, 1, 1)
      [] OTHER                                -> None

\* The files the decoder of an inline object writes: read_object hands its
\* own save_base to the reader it creates (line 139), and read_texture2d
\* saves mip i to save_base + f'_mip{i}.png' (line 443).
object_files(name) ==
    IF parsers_get(name) = "read_texture2d"
    THEN <<save_base(-1) \o "_mip" \o ToString(0) \o ".png">>
    ELSE <<>>

MdlRaise(exc) ==
    /\ mdl' = [mdl EXCEPT !.pc = "raised"]
    /\ outcome' = exc

\* Lines 685-690.
MdlBoneCount ==
    /\ mdl.pc = "bone_count"
    /\ \E g \in Got(4), n \in BoneCounts :
        /\ eof' = (eof \/ g < 4)
        /\ IF g < 4
           THEN MdlRaise("struct.error")
           ELSE /\ mdl' = [mdl EXCEPT !.pc = IF n > 0 THEN "bones" ELSE "mesh_count",
                             !.bone_count = n,
                             !.reference_reader = choose_reference_reader(n),
                             !.i = 0]
                /\ UNCHANGED outcome
    /\ UNCHANGED <<inputs, dct, dtm, leb, px, snd, pc, pos, fsVars, flags, tblVars, idx, tree, cause, tex,
                   refs, seen>>

\* Lines 691-697: one bone: a one-character name and a 4x4 float32 matrix.
MdlBone ==
    /\ mdl.pc = "bones"
    /\ \E g \in Got(2 + 64) :
        /\ eof' = (eof \/ g < 2 + 64)
        /\ IF g < 1
           THEN MdlRaise("IndexError")
           ELSE IF g < 2 + 64
           THEN MdlRaise("struct.error")
           ELSE /\ mdl' = [mdl EXCEPT !.bones = @ + 1,
                             !.i = IF mdl.i + 1 < mdl.bone_count THEN mdl.i + 1 ELSE 0,
                             !.pc = IF mdl.i + 1 < mdl.bone_count
                                    THEN "bones" ELSE "bone_refs"]
                /\ UNCHANGED outcome
    /\ UNCHANGED <<inputs, dct, dtm, leb, px, snd, pc, pos, fsVars, flags, tblVars, idx, tree, cause, tex,
                   refs, seen>>

\* Lines 699-707: one entry of bone_refs: the parent, the child count, the
\* children.
MdlBoneRef ==
    /\ mdl.pc = "bone_refs"
    /\ LET w == reader_width(mdl.reference_reader)
       IN  \E parent \in (IF mdl.i < MaxFreeBones THEN RefSamples(mdl.bone_count) ELSE {0}),
              child_count \in (IF mdl.i < MaxFreeBones THEN 0..MaxChildren ELSE {0}) :
           \E children \in [1..child_count -> RefSamples(mdl.bone_count)],
              g \in Got(w + 4 + child_count * w) :
               /\ eof' = (eof \/ g < w + 4 + child_count * w)
               /\ IF g < w + 4 + child_count * w
                  THEN MdlRaise("struct.error")
                  ELSE /\ mdl' = [mdl EXCEPT
                            !.parents = @ \cup {parent},
                            !.children = @ \cup {children[k] : k \in 1..child_count},
                            !.ref_reads = @ \cup {[role |-> "parent", width |-> w]}
                                            \cup {[role |-> "child", width |-> w] :
                                                  k \in 1..child_count},
                            !.i = IF mdl.i + 1 < mdl.bone_count THEN mdl.i + 1 ELSE 0,
                            !.pc = IF mdl.i + 1 < mdl.bone_count
                                   THEN "bone_refs" ELSE "mesh_count"]
                       /\ UNCHANGED outcome
    /\ UNCHANGED <<inputs, dct, dtm, leb, px, snd, pc, pos, fsVars, flags, tblVars, idx, tree, cause, tex,
                   refs, seen>>

\* Line 709: mesh_count.
MdlMeshCount ==
    /\ mdl.pc = "mesh_count"
    /\ \E g \in Got(4), n \in 0..MaxMeshes :
        /\ eof' = (eof \/ g < 4)
        /\ IF g < 4
           THEN MdlRaise("struct.error")
           ELSE /\ mdl' = [mdl EXCEPT !.pc = IF n > 0 THEN "mesh" ELSE "root",
                             !.mesh_count = n, !.i = 0]
                /\ UNCHANGED outcome
    /\ UNCHANGED <<inputs, dct, dtm, leb, px, snd, pc, pos, fsVars, flags, tblVars, idx, tree, cause, tex,
                   refs, seen>>

\* Lines 712-717: a mesh up to its part count: a one-character name, the
\* parent bone, the bounding sphere, the tag object, the part count.
MdlMesh ==
    /\ mdl.pc = "mesh"
    /\ LET w == reader_width(mdl.reference_reader)
       IN  \E tag \in InlineNames, n \in 0..MaxParts :
           \E g \in Got(2 + w + 16 + object_bytes(tag) + 4) :
               /\ eof' = (eof \/ g < 2 + w + 16 + object_bytes(tag) + 4)
               /\ files' = IF g >= 2 + w + 16 + object_bytes(tag)
                           THEN files \o object_files(tag) ELSE files
               /\ IF g < 1
                  THEN MdlRaise("IndexError")
                  ELSE IF g < 2 + w + 16 + object_bytes(tag) + 4
                  THEN MdlRaise("struct.error")
                  ELSE /\ mdl' = [mdl EXCEPT
                            !.ref_reads = @ \cup {[role |-> "mesh_parent", width |-> w]},
                            !.mesh = <<[name |-> "m", parent_bone |-> 0,
                                        tag |-> object_value(tag)]>>,
                            !.part_count = n, !.parts = <<>>, !.j = 0,
                            !.pc = "parts"]
                       /\ UNCHANGED outcome
    /\ UNCHANGED <<inputs, dct, dtm, leb, px, snd, pc, pos, dirMade, indexJson, flags, tblVars, idx, tree, cause, tex,
                   refs, seen>>

\* The bytes of a mesh part whose buffers have this shape: four uint32, the
\* tag object, the vertex declaration (stride, element count, 16 bytes per
\* element), the vertex count and data, the index buffer (flag, size, data)
\* and the effect (size, data).
part_bytes(shape) ==
    16 + object_bytes(UnboundReaderName)
    + 8 + 16 * shape.elem_count + 4 + shape.vertex_count * shape.stride
    + 1 + 4 + shape.ib_size
    + 4 + shape.effect_size

\* Lines 718-728: one mesh part.  formats[...] (line 584) raises IndexError
\* for an element format outside the list of 12.  A stream that ends inside
\* the effect bytecode, the last read of the part, gives a shorter blob and
\* no error (line 601).
MdlPart ==
    /\ mdl.pc = "parts"
    /\ mdl.j < mdl.part_count
    /\ \E shape \in PartShapes :
       \E g \in Got(part_bytes(shape)) :
           /\ eof' = (eof \/ g < part_bytes(shape))
           /\ IF g = 0
              THEN MdlRaise("struct.error")
              ELSE IF shape.elem_count > 0 /\ (shape.format < -12 \/ shape.format >= 12)
              THEN MdlRaise("IndexError")
              ELSE IF g < part_bytes(shape) - shape.effect_size
              THEN MdlRaise("struct.error")
              ELSE /\ mdl' = [mdl EXCEPT
                        !.parts = Append(@,
                            [mesh_part_tag |-> None,
                             vertex_count |-> shape.vertex_count,
                             vertex_data |-> shape.vertex_count * shape.stride,
                             index_buffer |-> shape.ib_size \div (IF shape.is_short THEN 2 ELSE 4),
                             effect |-> shape.effect_size - (part_bytes(shape) - g)]),
                        !.j = @ + 1]
                   /\ UNCHANGED outcome
    /\ UNCHANGED <<inputs, dct, dtm, leb, px, snd, pc, pos, fsVars, flags, tblVars, idx, tree, cause, tex,
                   refs, seen>>

\* Lines 729-735: the mesh is appended once its parts are read.
MdlMeshAppend ==
    /\ mdl.pc = "parts"
    /\ mdl.j >= mdl.part_count
    /\ mdl' = [mdl EXCEPT
            !.meshes = Append(@, [name |-> mdl.mesh[1].name,
                                  parent_bone |-> mdl.mesh[1].parent_bone,
                                  tag |-> mdl.mesh[1].tag,
                                  parts |-> mdl.parts]),
            !.mesh = <<>>, !.parts = <<>>, !.j = 0,
            !.i = @ + 1,
            !.pc = IF mdl.i + 1 < mdl.mesh_count THEN "mesh" ELSE "root"]
    /\ UNCHANGED <<inputs, dct, dtm, leb, px, snd, pc, pos, eof, fsVars, flags, tblVars, idx, tree, outcome,
                   cause, tex, refs, seen>>

\* Lines 736-740: the root bone and the model tag; the model is returned.
MdlRoot ==
    /\ mdl.pc = "root"
    /\ LET w == reader_width(mdl.reference_reader)
       IN  \E tag \in InlineNames :
           \E g \in Got(w + object_bytes(tag)) :
               /\ eof' = (eof \/ g < w + object_bytes(tag))
               /\ files' = IF g >= w + object_bytes(tag)
                           THEN files \o object_files(tag) ELSE files
               /\ IF g < w
                  THEN MdlRaise("struct.error")
                  ELSE IF g < w + 1
                  THEN MdlRaise("IndexError")
                  ELSE IF g < w + object_bytes(tag) /\ parsers_get(tag) # "lambda: None"
                  THEN MdlRaise("struct.error")
                  ELSE /\ mdl' = [mdl EXCEPT
                            !.ref_reads = @ \cup {[role |-> "root", width |-> w]},
                            !.result = <<[meshes |-> mdl.meshes, root_bone |-> 0,
                                          model_tag |-> IF g < w + object_bytes(tag)
                                                        THEN None ELSE object_value(tag)]>>,
                            !.pc = "returned"]
                       /\ UNCHANGED outcome
    /\ UNCHANGED <<inputs, dct, dtm, leb, px, snd, pc, pos, dirMade, indexJson, flags, tblVars, idx, tree, cause, tex,
                   refs, seen>>

InitModel ==
    /\ mdl = [MdlIdle EXCEPT !.pc = "bone_count"]
    /\ leb = LebIdle /\ px = PxIdle /\ snd = SndIdle
    /\ MainIdle
    /\ seen = {}
    /\ dct = DctIdle /\ dtm = DtmIdle

NextModel ==
    \/ MdlBoneCount
    \/ MdlBone
    \/ MdlBoneRef
    \/ MdlMeshCount
    \/ MdlMesh
    \/ MdlPart
    \/ MdlMeshAppend
    \/ MdlRoot

SpecModel == InitModel /\ [][NextModel]_vars

\* C7: the bone reference accessor is chosen once, when boneCount is read:
\* the 1-byte read when boneCount < 255, the 4-byte read otherwise; every
\* parent index, child index, mesh parent-bone index and root-bone index of
\* the model is read with it.
C7_WidthByBoneCount ==
    /\ mdl.reference_reader # "" =>
          mdl.reference_reader = (IF mdl.bone_count < 255 THEN "read_byte" ELSE "read_uint32")
    /\ \A e \in mdl.ref_reads : e.width = (IF mdl.bone_count < 255 THEN 1 ELSE 4)

C7_ChosenOnce ==
    mdl.reference_reader # "" => mdl'.reference_reader = mdl.reference_reader

C7_AccessorChosenOnce == []C7_WidthByBoneCount /\ [][C7_ChosenOnce]_vars

\* C7 witness: a model of 255 bones was returned and all four kinds of bone
\* reference were read with 4 bytes.
C7_Witness ==
    /\ mdl.pc = "returned" /\ mdl.bone_count = 255
    /\ mdl.ref_reads = {[role |-> r, width |-> 4] :
                            r \in {"parent", "child", "mesh_parent", "root"}}

\* C8: a model that read_model returns has every parent index and every
\* child index of its bone reference list below boneCount.
C8_BoneRefsBelowCount ==
    mdl.pc = "returned" =>
        \A r \in mdl.parents \cup mdl.children : r < mdl.bone_count

\* C15: during one run every output artifact path is written at most once:
\* no two textures decoded inside one top-level object, as the tag of a
\* mesh and the tag of the model, are written to the same file name.
C15_ArtifactsWrittenOnce ==
    \A a \in 1..Len(files), b \in 1..Len(files) : a # b => files[a] # files[b]


(***************************************************************************)
(* SpecSound: the steps of read_sound_effect.                              *)
(***************************************************************************)
\* int.to_bytes(4, 'little') of a value below 2^32.
to_bytes4(v) == <<v.lo % 256, v.lo \div 256, v.hi % 256, v.hi \div 256>>

\* to_bytes raises OverflowError for a value that does not fit 4 bytes.
fits4(v) == v.hi < 65536

\* waveformatex without the [:-2] trim.
waveformatex_untrimmed(chunk) == chunk

\* Line 745: fp.read(18)[:-2].
waveformatex_of(chunk) ==
    SubSeq(chunk, 1, IF Len(chunk) >= 2 THEN Len(chunk) - 2 ELSE 0)

\* Lines 751-753: the bytes before the payload, and the payload.
wav_of(wfx, data_size, data) ==
    [head |-> <<82, 73, 70, 70>> \o to_bytes4(UAdd(data_size, 36))
              \o <<87, 65, 86, 69, 102, 109, 116, 32, 16, 0, 0, 0>> \o wfx
              \o <<100, 97, 116, 97>> \o to_bytes4(data_size),
     payload |-> data]

\* Line 743: the format size, read and discarded.
SndFormatSize ==
    /\ snd.pc = "fmt_size"
    /\ \E g \in Got(4) :
        /\ eof' = (eof \/ g < 4)
        /\ IF g < 4
           THEN snd' = [snd EXCEPT !.pc = "raised"] /\ outcome' = "struct.error"
           ELSE snd' = [snd EXCEPT !.pc = "fmt"] /\ UNCHANGED outcome
    /\ UNCHANGED <<inputs, dct, dtm, leb, px, mdl, pc, pos, fsVars, flags, tblVars, idx, tree, cause, tex, refs, seen>>

\* Line 745: the 18-byte format chunk; a short read is not an error here.
SndFormat ==
    /\ snd.pc = "fmt"
    /\ \E g \in Got(18), seed \in ChunkSeeds :
        /\ eof' = (eof \/ g < 18)
        /\ snd' = [snd EXCEPT !.pc = "data_size", !.fmt_got = g, !.chunk_seed = seed,
                     !.waveformatex = waveformatex_of([k \in 1..g |-> ChunkByte(seed, k)])]
    /\ UNCHANGED <<inputs, dct, dtm, leb, px, mdl, pc, pos, fsVars, flags, tblVars, idx, tree, outcome, cause,
                   tex, refs, seen>>

\* Line 747: data_size = self.read_uint32().
SndDataSize ==
    /\ snd.pc = "data_size"
    /\ \E g \in Got(4), n \in DataSizes :
        /\ eof' = (eof \/ g < 4)
        /\ IF g < 4
           THEN snd' = [snd EXCEPT !.pc = "raised"] /\ outcome' = "struct.error"
           ELSE snd' = [snd EXCEPT !.pc = "data", !.data_size = n] /\ UNCHANGED outcome
    /\ UNCHANGED <<inputs, dct, dtm, leb, px, mdl, pc, pos, fsVars, flags, tblVars, idx, tree, cause, tex, refs, seen>>

\* Lines 748-756: the payload is read (a short read is not an error), the
\* WAVE bytes are built and written to save_base + '.wav'.
SndWrite ==
    /\ snd.pc = "data"
    /\ \E g \in GotU(snd.data_size), seed \in PcmSeeds :
        /\ eof' = (eof \/ g # snd.data_size)
        /\ IF ~fits4(UAdd(snd.data_size, 36))
           THEN /\ snd' = [snd EXCEPT !.pc = "raised", !.data_got = g, !.pcm_seed = seed]
                /\ outcome' = "OverflowError"
                /\ UNCHANGED files
           ELSE /\ snd' = [snd EXCEPT !.pc = "tail", !.data_got = g, !.pcm_seed = seed,
                             !.wav = <<wav_of(snd.waveformatex, snd.data_size,
                                              [len |-> g, seed |-> seed])>>]
                /\ files' = Append(files, save_base(-1) \o ".wav")
                /\ UNCHANGED outcome
    /\ UNCHANGED <<inputs, dct, dtm, leb, px, mdl, pc, pos, dirMade, indexJson, flags, tblVars, idx, tree,
                   cause, tex, refs, seen>>

\* Lines 758-766: loop_start, loop_length and duration, then the record.
SndTail ==
    /\ snd.pc = "tail"
    /\ \E g \in Got(12) :
        /\ eof' = (eof \/ g < 12)
        /\ IF g < 12
           THEN snd' = [snd EXCEPT !.pc = "raised"] /\ outcome' = "struct.error"
           ELSE /\ snd' = [snd EXCEPT !.pc = "returned",
                             !.result = <<[loop_start |-> 0, loop_length |-> 0,
                                           duration |-> 0]>>]
                /\ UNCHANGED outcome
    /\ UNCHANGED <<inputs, dct, dtm, leb, px, mdl, pc, pos, fsVars, flags, tblVars, idx, tree, cause, tex, refs, seen>>

InitSound ==
    /\ snd = [SndIdle EXCEPT !.pc = "fmt_size"]
    /\ leb = LebIdle /\ px = PxIdle /\ mdl = MdlIdle
    /\ MainIdle
    /\ seen = {}
    /\ dct = DctIdle /\ dtm = DtmIdle

NextSound ==
    \/ SndFormatSize
    \/ SndFormat
    \/ SndDataSize
    \/ SndWrite
    \/ SndTail

SpecSound == InitSound /\ [][NextSound]_vars

\* The unsigned integer that 4 little-endian bytes hold, as [hi, lo].
LittleEndian(bytes) == U(bytes[3] + 256 * bytes[4], bytes[1] + 256 * bytes[2])

\* The stream held the whole 18-byte format chunk and all N payload bytes,
\* and read_sound_effect is past the read of the payload.
SndStreamHeld == snd.fmt_got = 18 /\ snd.data_got = snd.data_size

\* The WAVE bytes written are laid out as "RIFF", N + 36, "WAVEfmt ", 16, the
\* first 16 bytes of the format chunk, "data", N, then the N payload bytes:
\* 44 + N bytes in all.
SndLayout ==
    /\ snd.wav # <<>>
    /\ files = <<"primary.wav">>
    /\ LET head == snd.wav[1].head
           N    == snd.data_size
       IN  /\ UAdd(snd.wav[1].payload.len, Len(head)) = UAdd(N, 44)
           /\ SubSeq(head, 1, 4) = <<82, 73, 70, 70>>
           /\ LittleEndian(SubSeq(head, 5, 8)) = UAdd(N, 36)
           /\ SubSeq(head, 9, 16) = <<87, 65, 86, 69, 102, 109, 116, 32>>
           /\ LittleEndian(SubSeq(head, 17, 20)) = U(0, 16)
           /\ SubSeq(head, 21, 36) = [k \in 1..16 |-> ChunkByte(snd.chunk_seed, k)]
           /\ SubSeq(head, 37, 40) = <<100, 97, 116, 97>>
           /\ LittleEndian(SubSeq(head, 41, 44)) = N
           /\ snd.wav[1].payload = [len |-> N, seed |-> snd.pcm_seed]

\* C9 as stated: for every N, a stream that holds the format-size field, the
\* 18-byte format chunk, the data-size field N and N bytes of PCM yields the
\* WAVE bytes of length 44 + N laid out as above.
C9_WaveLayoutAnyN == SndStreamHeld => SndLayout

\* C9 amended: the same for every N with N + 36 < 2^32.
C9_WaveLayout == (SndStreamHeld /\ UAdd(snd.data_size, 36).hi < 65536) => SndLayout

\* C9 witness: a WAVE file with a 2-byte payload was written and the record
\* returned.
C9_Witness ==
    /\ snd.pc = "returned" /\ SndStreamHeld /\ snd.data_size = U(0, 2)
    /\ Len(snd.wav[1].head) = 44

(***************************************************************************)
(* SpecPixel: _col_as_rgba on every 16-bit texel, as Bgra5551 and as       *)
(* Bgra4444.                                                               *)
(***************************************************************************)
InitPixel ==
    /\ \E typ \in {"Bgra5551", "Bgra4444"}, lo \in 0..255, hi \in 0..255 :
        px = [pc |-> "start", typ |-> typ, bytes |-> <<lo, hi>>, out |-> <<>>]
    /\ leb = LebIdle /\ snd = SndIdle /\ mdl = MdlIdle
    /\ MainIdle
    /\ seen = {}
    /\ dct = DctIdle /\ dtm = DtmIdle

PixelUnpack ==
    /\ px.pc = "start"
    /\ px' = [px EXCEPT !.pc = "done", !.out = col_as_rgba16(px.typ, px.bytes)]
    /\ UNCHANGED <<inputs, dct, dtm, leb, snd, mdl, mainVars, seen>>

NextPixel == PixelUnpack

SpecPixel == InitPixel /\ [][NextPixel]_vars

\* The n-bit field of c that starts at bit lo.
Field(c, lo, n) == (c \div 2^lo) % 2^n

\* C10: for every 16-bit packed value c, Bgra5551 gives alpha 255 when bit 15
\* is set and 0 otherwise, and red, green, blue equal to the 5-bit fields at
\* bits 10-14, 5-9, 0-4 times 8; Bgra4444 gives each channel equal to its 4-bit
\* field (alpha 12-15, red 8-11, green 4-7, blue 0-3) times 16, so that no
\* channel exceeds 240.
C10_Packed16Unpack ==
    px.pc = "done" =>
        LET c == px.bytes[1] + 256 * px.bytes[2]
        IN  IF px.typ = "Bgra5551"
            THEN px.out = <<8 * Field(c, 10, 5), 8 * Field(c, 5, 5), 8 * Field(c, 0, 5),
                            IF Field(c, 15, 1) = 1 THEN 255 ELSE 0>>
            ELSE /\ px.out = <<16 * Field(c, 8, 4), 16 * Field(c, 4, 4),
                               16 * Field(c, 0, 4), 16 * Field(c, 12, 4)>>
                 /\ \A k \in 1..4 : px.out[k] <= 240

\* C10 witness: 0xF000 unpacked as Bgra4444 has alpha 240.
C10_Witness ==
    /\ px.pc = "done" /\ px.typ = "Bgra4444"
    /\ px.bytes = <<0, \HF0>>
    /\ px.out[4] = 240

(***************************************************************************)
(* SpecDict: read_dictionary(key_reader, value_reader) (lines 203-209) on  *)
(* a stream of its own.  The two arguments are bound methods of the        *)
(* reader; a dict is kept as the set of its [key, value] items.            *)
(***************************************************************************)
MaxDictCount == 3

\* The readers passed as key_reader and value_reader.
DictReaders == {"read_byte", "read_uint16", "read_uint32"}

\* A bound method object, as a value.
Method(name) == [t |-> "method", name |-> name]

\* d[k] = v
dict_store(d, k, v) == {e \in d : e.key # k} \cup {[key |-> k, value |-> v]}

InitDict ==
    /\ \E k \in DictReaders, v \in DictReaders :
        dct = [DctIdle EXCEPT !.pc = "count", !.key_reader = k, !.value_reader = v]
    /\ dtm = DtmIdle
    /\ leb = LebIdle /\ px = PxIdle /\ snd = SndIdle /\ mdl = MdlIdle
    /\ MainIdle
    /\ seen = {}

\* Lines 204-205: count = self.read_uint32(); d = {}.
DctCount ==
    /\ dct.pc = "count"
    /\ \E g \in Got(4), n \in 0..MaxDictCount :
        /\ pos' = pos + g
        /\ eof' = (eof \/ g < 4)
        /\ IF g < 4
           THEN dct' = [dct EXCEPT !.pc = "raised"] /\ outcome' = "struct.error"
           ELSE /\ dct' = [dct EXCEPT !.pc = "loop", !.count = n, !.i = 0, !.d = {}]
                /\ UNCHANGED outcome
    /\ UNCHANGED <<inputs, dtm, leb, px, snd, mdl, pc, fsVars, flags, tblVars, idx, tree, cause,
                   tex, refs, seen>>

\* Lines 206-207: one pass of the loop: d[key_reader] = value_reader.  The
\* two names are stored as they are; neither is called and nothing is read.
DctEntry ==
    /\ dct.pc = "loop"
    /\ dct.i < dct.count
    /\ dct' = [dct EXCEPT !.i = @ + 1,
                 !.d = dict_store(@, Method(dct.key_reader), Method(dct.value_reader))]
    /\ UNCHANGED <<inputs, dtm, leb, px, snd, mdl, mainVars, seen>>

\* Line 209: return d.
DctReturn ==
    /\ dct.pc = "loop"
    /\ dct.i >= dct.count
    /\ dct' = [dct EXCEPT !.pc = "returned", !.result = <<dct.d>>]
    /\ UNCHANGED <<inputs, dtm, leb, px, snd, mdl, mainVars, seen>>

NextDict ==
    \/ DctCount
    \/ DctEntry
    \/ DctReturn

SpecDict == InitDict /\ [][NextDict]_vars

\* The bytes one call of a reader consumes.
DictReaderBytes(r) ==
    CASE r = "read_byte" -> 1 [] r = "read_uint16" -> 2 [] r = "read_uint32" -> 4

\* C11: read_dictionary reads a uint32 count and then, for each of the count
\* entries, calls the key decoder and the value decoder on the stream and
\* inserts decoded key -> decoded value: when it returns, the stream has
\* advanced by the count field and the bytes of all count keys and values,
\* and the mapping holds decoded values, with an entry if count > 0.
C11_DictionaryDecodesEntries ==
    dct.pc = "returned" =>
        /\ pos = 4 + dct.count * (DictReaderBytes(dct.key_reader)
                                  + DictReaderBytes(dct.value_reader))
        /\ \A e \in dct.result[1] : e.key.t # "method" /\ e.value.t # "method"
        /\ (dct.count > 0) = (dct.result[1] # {})


(***************************************************************************)
(* SpecTexel: one call of _col_as_rgba (lines 348-415) for each surface    *)
(* format, on a stream of its own that holds 16 bytes unless it has ended. *)
(***************************************************************************)
\* The bytes of the stream: byte k of the stream drawn with this seed.
TexelSeeds ==
    {[base |-> 0, step |-> 0], [base |-> 255, step |-> 0], [base |-> 128, step |-> 0],
     [base |-> 11, step |-> 37], [base |-> 200, step |-> 91]}

TexelByte(seed, k) == (seed.base + seed.step * k) % 256

\* read_single: struct.unpack('f', ...) of 4 bytes, kept as its bytes.
Float(b) == [t |-> "float", bytes |-> b]

\* Lines 351-355.
unpack_bgr565(color) ==
    LET r == Shr(BitAnd(color, \HF800), 8)
        g == Shr(BitAnd(color, \H07E0), 3)
        b == Shl(BitAnd(color, \H001F), 3)
    IN  <<r, g, b, \HFF>>

\* Lines 379-391; color = hi * 65536 + lo, so that 0x3FF00000, 0x000FFC00,
\* 0x000003FF and 0xC0000000 mask hi with 0x3FF0, hi with 0x000F and lo with
\* 0xFC00, lo with 0x03FF, and hi with 0xC000.
unpack_rgba1010102(hi, lo) ==
    LET r == Shr(BitAnd(hi, \H3FF0), 4)
        g == Shl(BitAnd(hi, \H000F), 6) + Shr(BitAnd(lo, \HFC00), 10)
        b == BitAnd(lo, \H03FF)
        a == IF BitAnd(hi, \HC000) = \HC000 THEN \HFF
             ELSE IF BitAnd(hi, \HC000) = \H8000 THEN \H80
             ELSE 0
    IN  <<r, g, b, a>>

\* _col_as_rgba(typ) for the formats whose call returns; b is the bytes read.
\* The uint32 channel of Rg32 is kept as [hi, lo].
col_as_rgba(typ, b) ==
    LET u16(k) == read_uint16(SubSeq(b, k, k + 1))
        f32(k) == Float(SubSeq(b, k, k + 3))
    IN  CASE typ = "Color"           -> <<b[1], b[2], b[3], b[4]>>
          [] typ = "Bgr565"          -> unpack_bgr565(u16(1))
          [] typ = "Bgra5551"        -> unpack_bgra5551(u16(1))
          [] typ = "Bgra4444"        -> unpack_bgra4444(u16(1))
          [] typ = "NormalizedByte2" -> <<b[1], b[1], b[1], b[2]>>
          [] typ = "NormalizedByte4" -> <<b[1], b[2], b[3], b[4]>>
          [] typ = "Rgba1010102"     -> unpack_rgba1010102(u16(3), u16(1))
          [] typ = "Rg32"            -> <<b[1], U(u16(4), u16(2)), 0, \HFF>>
          [] typ = "Rgba64"          -> <<u16(1) \div 2, u16(3) \div 2,
                                          u16(5) \div 2, u16(7) \div 2>>
          [] typ = "Alpha8"          -> <<0, 0, 0, b[1]>>
          [] typ = "Single"          -> <<f32(1), f32(1), f32(1), f32(1)>>
          [] typ = "Vector2"         -> <<f32(1), f32(5), 0, \HFF>>
          [] typ = "Vector4"         -> <<f32(1), f32(5), f32(9), f32(13)>>
          [] typ = "HdrBlendable"    -> <<u16(1) \div 2, u16(1) \div 2, u16(1) \div 2,
                                          u16(3) \div 2>>

InitTexel ==
    /\ \E k \in 1..Len(SURFACE_FORMATS), seed \in TexelSeeds :
        px = [pc |-> "start", typ |-> SURFACE_FORMATS[k],
              bytes |-> [j \in 1..16 |-> TexelByte(seed, j)],
              out |-> <<>>, used |-> 0, ends |-> ""]
    /\ leb = LebIdle /\ snd = SndIdle /\ mdl = MdlIdle
    /\ MainIdle
    /\ seen = {}
    /\ dct = DctIdle /\ dtm = DtmIdle

\* One call of _col_as_rgba(px.typ).
TexelDecode ==
    /\ px.pc = "start"
    /\ IF col_ends(px.typ) # "returns"
       THEN /\ px' = [px EXCEPT !.pc = "raised", !.ends = col_ends(px.typ)]
            /\ outcome' = col_ends(px.typ)
            /\ UNCHANGED <<pos, eof>>
       ELSE \E g \in Got(col_bytes(px.typ)) :
               /\ pos' = pos + g
               /\ eof' = (eof \/ g < col_bytes(px.typ))
               /\ IF g < col_bytes(px.typ)
                  THEN /\ px' = [px EXCEPT !.pc = "raised", !.used = g,
                                   !.ends = "struct.error"]
                       /\ outcome' = "struct.error"
                  ELSE /\ px' = [px EXCEPT !.pc = "done", !.used = g, !.ends = "returns",
                                   !.out = <<col_as_rgba(px.typ,
                                               SubSeq(px.bytes, 1, col_bytes(px.typ)))>>]
                       /\ UNCHANGED outcome
    /\ UNCHANGED <<inputs, dct, dtm, leb, snd, mdl, pc, fsVars, flags, tblVars, idx, tree, cause,
                   tex, refs, seen>>

NextTexel == TexelDecode

SpecTexel == InitTexel /\ [][NextTexel]_vars

\* The byte width the claim gives each supported format.
TexelWidth(typ) ==
    CASE typ \in {"Alpha8"}                                                   -> 1
      [] typ \in {"Bgr565", "Bgra5551", "Bgra4444", "NormalizedByte2",
                  "HalfSingle"}                                              -> 2
      [] typ \in {"Color", "NormalizedByte4", "Rgba1010102", "Single",
                  "HalfVector2", "HdrBlendable"}                             -> 4
      [] typ \in {"Rg32"}                                                     -> 5
      [] typ \in {"Rgba64", "Vector2", "HalfVector4"}                         -> 8
      [] typ \in {"Vector4"}                                                  -> 16

IntegerFormats ==
    {"Color", "Bgr565", "Bgra5551", "Bgra4444", "NormalizedByte2", "NormalizedByte4",
     "Rgba1010102", "Rg32", "Rgba64", "Alpha8", "HdrBlendable"}

\* Channel k of a texel of format typ is in 0..255.
ByteChannel(typ, k, c) ==
    IF typ = "Rg32" /\ k = 2 THEN c.hi = 0 /\ c.lo <= 255 ELSE c \in 0..255

\* C12: for each of the 17 supported surface formats, one call of
\* _col_as_rgba on a stream that holds the texel consumes exactly the
\* format's fixed number of bytes and returns one 4-channel texel; for the
\* integer formats every channel of the texel is in 0..255.
C12_TexelWidthAndRange ==
    (px.pc # "start" /\ px.typ \notin {"Dxt1", "Dxt3", "Dxt5"} /\ ~eof) =>
        /\ px.pc = "done"
        /\ px.used = TexelWidth(px.typ)
        /\ Len(px.out[1]) = 4
        /\ px.typ \in IntegerFormats =>
              \A k \in 1..4 : ByteChannel(px.typ, k, px.out[1][k])


(***************************************************************************)
(* SpecDate: read_datetime (lines 219-226) on a stream of its own.         *)
(*                                                                         *)
(* A Python integer is kept in two's complement as [ext, limbs]: four      *)
(* 16-bit limbs, least significant first, and ext, 0 or -1, the value of   *)
(* all the bits above them: the integer ext * 2^64 + the unsigned value of *)
(* the limbs.  Every integer from -2^64 to 2^64 - 1 is held exactly.       *)
(***************************************************************************)
\* The 16-bit limbs drawn for the low three limbs and for the top limb.
LowLimbs == {0, 1, \HFFFF}

TopLimbs == {0, 1, \H3FFF, \H4000, \H7FFF, \H8000, \HBFFF, \HC000, \HFFFF}

\* read_int64: struct.unpack('q', ...) of the 8 bytes whose little-endian
\* 16-bit limbs are these: the top bit is the sign.
read_int64(limbs) == [ext |-> IF limbs[4] >= \H8000 THEN -1 ELSE 0, limbs |-> limbs]

\* ~(3 << 62): every bit set but bits 62 and 63.
mask_not_3_shl_62 == [ext |-> -1, limbs |-> <<\HFFFF, \HFFFF, \HFFFF, \H3FFF>>]

\* value >> 62: the bits above bit 61, those of ext included; ext = -1
\* weighs -4.
shr62(value) == 4 * value.ext + Shr(value.limbs[4], 14)

\* a & b on Python integers: limb by limb, and ext by ext.
and_int(a, b) ==
    [ext |-> IF a.ext = -1 /\ b.ext = -1 THEN -1 ELSE 0,
     limbs |-> [k \in 1..4 |-> BitAnd(a.limbs[k], b.limbs[k])]]

InitDate ==
    /\ dtm = [DtmIdle EXCEPT !.pc = "start"]
    /\ dct = DctIdle
    /\ leb = LebIdle /\ px = PxIdle /\ snd = SndIdle /\ mdl = MdlIdle
    /\ MainIdle
    /\ seen = {}

\* Lines 220-226.
DtmRead ==
    /\ dtm.pc = "start"
    /\ \E g \in Got(8), l1 \in LowLimbs, l2 \in LowLimbs, l3 \in LowLimbs, l4 \in TopLimbs :
        LET value == read_int64(<<l1, l2, l3, l4>>)
            kind  == shr62(value)
            ticks == and_int(value, mask_not_3_shl_62)
        IN  /\ pos' = pos + g
            /\ eof' = (eof \/ g < 8)
            /\ IF g < 8
               THEN dtm' = [dtm EXCEPT !.pc = "raised"] /\ outcome' = "struct.error"
               ELSE /\ dtm' = [dtm EXCEPT !.pc = "returned", !.word = <<l1, l2, l3, l4>>,
                                 !.result = <<[kind |-> kind, ticks |-> ticks]>>]
                    /\ UNCHANGED outcome
    /\ UNCHANGED <<inputs, dct, leb, px, snd, mdl, pc, fsVars, flags, tblVars, idx, tree,
                   cause, tex, refs, seen>>

NextDate == DtmRead

SpecDate == InitDate /\ [][NextDate]_vars

\* C16: for every 64-bit word, read_datetime returns kind in 0..3 equal to
\* the top 2 bits of the word and ticks in 0..2^62-1 equal to its low 62
\* bits, so that kind * 2^62 + ticks is the word as an unsigned integer.
C16_KindAndTicks ==
    dtm.pc = "returned" =>
        LET w == dtm.word
            r == dtm.result[1]
        IN  /\ r.kind \in 0..3
            /\ r.kind = w[4] \div \H4000
            /\ r.ticks.ext = 0
            /\ r.ticks.limbs = <<w[1], w[2], w[3], w[4] % \H4000>>


(***************************************************************************)
(* SpecLeb: read_leb128 on the encoding of every V up to MaxLebValue,      *)
(* followed by one more byte of the stream.                                *)
(***************************************************************************)
MaxLebValue == 17000

LebTail == {0, 255}

InitLeb ==
    /\ \E V \in 0..MaxLebValue, t \in LebTail :
        leb = [pc |-> "start", V |-> V, stream |-> encode_leb128(V) \o <<t>>,
               result |-> 0, used |-> 0, ok |-> TRUE]
    /\ px = PxIdle /\ snd = SndIdle /\ mdl = MdlIdle
    /\ MainIdle
    /\ seen = {}
    /\ dct = DctIdle /\ dtm = DtmIdle

LebDecode ==
    /\ leb.pc = "start"
    /\ LET r == read_leb128(leb.stream)
       IN  leb' = [leb EXCEPT !.pc = "done", !.result = r.value,
                              !.used = r.used, !.ok = r.ok]
    /\ UNCHANGED <<inputs, dct, dtm, px, snd, mdl, mainVars, seen>>

NextLeb == LebDecode

SpecLeb == InitLeb /\ [][NextLeb]_vars

\* C1: for every unsigned V, read_leb128 on the canonical encoding of V returns
\* exactly V and consumes exactly the bytes of that encoding.
C1_LebDecodesCanonical ==
    leb.pc = "done" =>
        /\ leb.ok
        /\ leb.result = leb.V
        /\ leb.used = Len(encode_leb128(leb.V))

====
